---- MODULE Spec2Model ----
(***************************************************************************)
(* Model of src/wechat_listener.py: DeepSeekAPI.get_reply and the          *)
(* WeChatListener worker (process_message, send_long_message,              *)
(* send_time_report, listen_messages, start_listening, stop_listening).    *)
(*                                                                         *)
(* A Python str is a sequence of one-character strings.  Characters that   *)
(* are not ASCII are written as ASCII atoms, one atom per character        *)
(* ("robot" is the emoji of the banner, "sheng" is 生, ...), so len(),      *)
(* slicing, rfind, `in` and replace keep their character-level meaning.    *)
(*                                                                         *)
(* Each thread has a position (pc, with the labels its calls return to on  *)
(* a stack) and the locals of its frames.  ReplySpec, SplitSpec and        *)
(* FilterSpec run one call of get_reply, send_long_message and             *)
(* process_message on enumerated arguments; Spec is the listener with its  *)
(* controlling thread, its workers, the backend and the clock.  RunSpec,   *)
(* StopSpec and ReportSpec run the loop of one worker: on a batch of       *)
(* several messages, on one message with stop_listening called at any      *)
(* point, and over a sweep of the clock through two hours; DrainSpec runs  *)
(* a worker from its start, with a message waiting at the backend.         *)
(* self.start_time (line 286) is written once and only logged: it is left  *)
(* out of the state.  Log calls are not modelled.                          *)
(***************************************************************************)
EXTENDS Integers, Sequences, FiniteSets, TLC

\* ------------------------------------------------------------------ bounds
MaxTokens == 4        \* a text handed to send_long_message has at most this many tokens
MaxML == 15           \* max_message_length ranges over 1..MaxML in SplitSpec
MaxStuck == 2         \* iterations of the split loop modelled once it stops making progress
MaxFaults == 2        \* backend calls (SendMsg, GetListenMessage) that raise in one run
MaxRetries == 3       \* get_reply is called with retries in -1..MaxRetries in ReplySpec

\* ----------------------------------------------------------------- strings
NL == "\n"

\* "🤖【DeepSeek生成】"  (line 112, line 232)
Banner == <<"robot", "[[", "D", "e", "e", "p", "S", "e", "e", "k", "sheng", "cheng", "]]">>

\* "🤖【DeepSeek生成】\n"  (the argument of replace, line 233)
BannerLine == Banner \o <<NL>>

\* "❌ 服务未配置，请先设置API密钥"  (line 83)
NotConfigured ==
    <<"X", " ", "fu", "wu", "wei", "pei", "zhi", ",", "qing", "xian", "she", "zhi",
      "A", "P", "I", "mi", "yao">>

\* "我还在思考中，请稍后再试"  (line 115)
StillThinking ==
    <<"wo", "hai", "zai_at", "si", "kao", "zhong", ",", "qing", "shao", "hou",
      "zai_again", "shi_try">>

\* "请求超时，请稍后再试"  (line 124)
TimeoutMsg ==
    <<"qing", "qiu", "chao", "shi_time", ",", "qing", "shao", "hou", "zai_again", "shi_try">>

\* "网络连接出现问题"  (line 132)
NetworkProblem == <<"wang", "luo", "lian", "jie", "chu_out", "xian_appear", "wen", "ti">>

\* "处理消息时发生错误"  (line 136)
ProcessingError ==
    <<"chu_handle", "li", "xiao", "xi", "shi_time", "fa", "sheng", "cuo", "wu_err">>

\* "服务暂时不可用，请稍后再试"  (line 138)
Unavailable ==
    <<"fu", "wu", "zan", "shi_time", "bu", "ke", "yong", ",", "qing", "shao", "hou",
      "zai_again", "shi_try">>

\* "抱歉，处理消息时出了点问题，请再试一次"  (line 212)
Apology ==
    <<"bao", "qian", ",", "chu_handle", "li", "xiao", "xi", "shi_time", "chu_out", "le",
      "dian", "wen", "ti", ",", "qing", "zai_again", "shi_try", "yi_one", "ci">>

\* skip_keywords (line 194): "以下为新消息", "收到请回复", "补充通知", "网络连接出现问题"
skip_keywords ==
    {<<"yi_below", "xia", "wei_as", "xin", "xiao", "xi">>,
     <<"shou", "dao", "qing", "hui", "fu_reply">>,
     <<"bu_add", "chong", "tong", "zhi_know">>,
     NetworkProblem}

Max(S) == CHOOSE x \in S : \A y \in S : y <= x

Min2(a, b) == IF a <= b THEN a ELSE b

\* s[:k]
Take(s, k) == SubSeq(s, 1, Min2(k, Len(s)))

\* s[k:]
Drop(s, k) == SubSeq(s, Min2(k, Len(s)) + 1, Len(s))

\* s.rfind(c, 0, end): the highest 0-based index below end holding c, or -1
RFind(s, c, end) ==
    LET idx == {i \in 0..(Min2(end, Len(s)) - 1) : s[i + 1] = c}
    IN  IF idx = {} THEN -1 ELSE Max(idx)

\* sub in s
Contains(s, sub) ==
    \E i \in 1..(Len(s) - Len(sub) + 1) : SubSeq(s, i, i + Len(sub) - 1) = sub

\* s.replace(old, ""): every non-overlapping occurrence, left to right
RECURSIVE Remove(_, _)
Remove(s, old) ==
    IF Len(s) < Len(old) THEN s
    ELSE IF SubSeq(s, 1, Len(old)) = old THEN Remove(Drop(s, Len(old)), old)
    ELSE <<Head(s)>> \o Remove(Tail(s), old)

RECURSIVE Concat(_)
Concat(ss) == IF ss = <<>> THEN <<>> ELSE Head(ss) \o Concat(Tail(ss))

\* --------------------------------------------------------------- the state
VARIABLES
    th,                 \* per thread: position (pc, stack) and the locals of its frames
    sent,               \* every SendMsg call so far: peer, text, whether it raised
    faults,             \* backend calls that raised so far
    max_message_length, \* self.max_message_length (line 149)
    api_key,            \* DeepSeekAPI.API_KEY (lines 72, 76): "None", "" or a key
    listen_list,        \* self.listen_list (line 145), as the set of its elements
    self_name,          \* self.self_name (lines 154, 158)
    last_message_time,  \* self.last_message_time (line 148): peer -> time
    clock,              \* what datetime.now() returns, in ticks
    time_report,        \* self.time_report (line 160)
    time_report_who,    \* self.time_report_who (line 161)
    last_reported_hour, \* self.last_reported_hour (line 163)
    running,            \* self.running (line 147)
    listener_thread,    \* self.listener_thread (line 289): the thread spawned last, 0 if none
    ctl,                \* the controlling thread: "idle", or "joining" inside stop_listening
    inbox,              \* the backend's new messages, per chat, since the last fetch
    arrivals            \* messages that arrived at the backend so far

cfg == <<max_message_length, api_key, listen_list, self_name, time_report, time_report_who>>

loop == <<last_reported_hour, running, listener_thread, ctl, inbox, arrivals>>

vars == <<th, sent, faults, cfg, loop, last_message_time, clock>>

MaxThreads == 2       \* threads start_listening may spawn in one run

Threads == 1..MaxThreads

NoPeer == "nobody"

\* id: the arrival number of the message at the backend (0: handed in directly)
NoMsg == [sender |-> NoPeer, type |-> "none", content |-> <<>>, id |-> 0]

\* a thread that was never started, and the initial value of every local; trace is
\* the history of the thread's calls for messages: process_message entered ("pm"),
\* get_reply called ("gr"), SendMsg called with a reply, a segment or the apology
\* ("send"), each with the arrival number of the message, its peer and, for a
\* segment, its index in the list of parts
NoThread ==
    [pc |-> "none", stack |-> <<>>,
     batch |-> <<>>, chat |-> NoPeer, one_msgs |-> <<>>, cur_hour |-> -1,
     who |-> NoPeer, msg |-> NoMsg, api_reply |-> <<>>,
     retries |-> 0, attempt |-> 0, result |-> <<>>,
     posts |-> 0, timeouts |-> <<>>, waits |-> <<>>, outcomes |-> <<>>,
     text |-> <<>>, message |-> <<>>, parts |-> <<>>, i |-> 0,
     trace |-> <<>>]

\* the thread's trace with one more call for the message it is handling
Traced(r, ev) ==
    Append(r.trace, [ev |-> ev, id |-> r.msg.id, to |-> r.who,
                     seg |-> IF r.pc = "slm_send" THEN r.i ELSE -1])

\* return to the caller's label; a top-level call ends in "done"
Ret(r) ==
    IF r.stack = <<>> THEN [r EXCEPT !.pc = "done"]
    ELSE [r EXCEPT !.pc = Head(r.stack), !.stack = Tail(r.stack)]

\* the listener's own state where a check calls one function on its own
Peers == {"Alice", "Bob"}

NoInbox == [p \in Peers |-> <<>>]

\* a listener that was never started, with no message waiting
IdleLoop ==
    /\ time_report = FALSE
    /\ time_report_who = "Alice"
    /\ last_reported_hour = -1
    /\ running = FALSE
    /\ listener_thread = 0
    /\ ctl = "idle"
    /\ inbox = NoInbox
    /\ arrivals = 0

IdleListener ==
    /\ listen_list = {"Alice"}
    /\ self_name = "Bot"
    /\ last_message_time = <<>>
    /\ clock = 0
    /\ IdleLoop

\* the arrival numbers of the messages the thread has passed to process_message
Handled(t) == {th[t].trace[k].id : k \in {n \in 1..Len(th[t].trace) : th[t].trace[n].ev = "pm"}}

\* the frames left by an exception if the loop of listen_messages had no try
RECURSIVE UnwindNoLoopTry(_)
UnwindNoLoopTry(stack) ==
    IF stack = <<>> THEN [pc |-> "raised", stack |-> <<>>]
    ELSE IF Head(stack) \in {"pm_reply", "pm_sent"}
         THEN [pc |-> "pm_apology", stack |-> Tail(stack)]
    ELSE UnwindNoLoopTry(Tail(stack))

\* an exception leaves the frames it is not caught in: the label a call returns to
\* tells which try block the call sits in
RECURSIVE Unwind(_)
Unwind(stack) ==
    IF stack = <<>> THEN [pc |-> "raised", stack |-> <<>>]
    ELSE IF Head(stack) \in {"pm_reply", "pm_sent"}
         THEN [pc |-> "pm_apology", stack |-> Tail(stack)]       \* except of lines 209-214
    ELSE IF Head(stack) = "lm_msg"
         THEN [pc |-> "lm_backoff", stack |-> Tail(stack)]       \* except of lines 279-281
    ELSE Unwind(Tail(stack))

Raise(r) == [r EXCEPT !.pc = Unwind(r.stack).pc, !.stack = Unwind(r.stack).stack]

\* ---------------------------------------------------- DeepSeekAPI.get_reply
DefaultRetries == 2
HttpBaseTimeout == 15
HttpTimeoutStep == 5
TimeoutWaitBase == 1
TransportWait == 1

\* a reply of one line that is longer than the short max_message_length
LongLine == [k \in 1..16 |-> "a"]

\* reply_content of a successful response (line 111)
ReplyContents == {<<"h", "i">>, LongLine}

\* what one POST can end in: a reply, a response without choices, a response whose
\* choices[0] has no message.content (any exception that is no RequestException),
\* requests.exceptions.Timeout, any other RequestException
Outcomes == {"ok", "empty", "other", "timeout", "transport"}

\* `not DeepSeekAPI.API_KEY` with the check narrowed to `is None`
KeyIsNone(key) == key = "None"

\* line 81: not DeepSeekAPI.API_KEY
KeyMissing(key) == key \in {"None", ""}

\* the handler without its last except clause: other exceptions propagate
OnAttemptNoCatchAll(outcome, content, attempt, retries) ==
    CASE outcome = "ok" -> [kind |-> "return", value |-> BannerLine \o content, wait |-> 0]
      [] outcome = "empty" -> [kind |-> "return", value |-> StillThinking, wait |-> 0]
      [] outcome = "timeout" ->
            IF attempt < retries
            THEN [kind |-> "retry", value |-> <<>>, wait |-> TimeoutWaitBase + attempt]
            ELSE [kind |-> "return", value |-> TimeoutMsg, wait |-> 0]
      [] outcome = "transport" ->
            IF attempt < retries
            THEN [kind |-> "retry", value |-> <<>>, wait |-> TransportWait]
            ELSE [kind |-> "return", value |-> NetworkProblem, wait |-> 0]
      [] outcome = "other" -> [kind |-> "raise", value |-> <<>>, wait |-> 0]

\* the handler with both retry branches continuing after the last attempt too, so
\* that the loop runs out
OnAttemptAlwaysContinue(outcome, content, attempt, retries) ==
    CASE outcome = "ok" -> [kind |-> "return", value |-> BannerLine \o content, wait |-> 0]
      [] outcome = "empty" -> [kind |-> "return", value |-> StillThinking, wait |-> 0]
      [] outcome = "timeout" ->
            [kind |-> "retry", value |-> <<>>,
             wait |-> IF attempt < retries THEN TimeoutWaitBase + attempt ELSE 0]
      [] outcome = "transport" ->
            [kind |-> "retry", value |-> <<>>,
             wait |-> IF attempt < retries THEN TransportWait ELSE 0]
      [] outcome = "other" -> [kind |-> "return", value |-> ProcessingError, wait |-> 0]

\* the handler with a response without choices treated as a transport failure
OnAttemptRetryEmpty(outcome, content, attempt, retries) ==
    CASE outcome = "ok" -> [kind |-> "return", value |-> BannerLine \o content, wait |-> 0]
      [] outcome \in {"empty", "transport"} ->
            IF attempt < retries
            THEN [kind |-> "retry", value |-> <<>>, wait |-> TransportWait]
            ELSE [kind |-> "return", value |-> NetworkProblem, wait |-> 0]
      [] outcome = "timeout" ->
            IF attempt < retries
            THEN [kind |-> "retry", value |-> <<>>, wait |-> TimeoutWaitBase + attempt]
            ELSE [kind |-> "return", value |-> TimeoutMsg, wait |-> 0]
      [] outcome = "other" -> [kind |-> "return", value |-> ProcessingError, wait |-> 0]

\* lines 106-136: what the body of one attempt does with the outcome of its POST:
\* return a value, sleep and continue with the next attempt, or raise
OnAttempt(outcome, content, attempt, retries) ==
    CASE outcome = "ok" -> [kind |-> "return", value |-> BannerLine \o content, wait |-> 0]
      [] outcome = "empty" -> [kind |-> "return", value |-> StillThinking, wait |-> 0]
      [] outcome = "timeout" ->
            IF attempt < retries
            THEN [kind |-> "retry", value |-> <<>>, wait |-> TimeoutWaitBase + attempt]
            ELSE [kind |-> "return", value |-> TimeoutMsg, wait |-> 0]
      [] outcome = "transport" ->
            IF attempt < retries
            THEN [kind |-> "retry", value |-> <<>>, wait |-> TransportWait]
            ELSE [kind |-> "return", value |-> NetworkProblem, wait |-> 0]
      [] outcome = "other" -> [kind |-> "return", value |-> ProcessingError, wait |-> 0]

\* the same timeout for every attempt
HttpTimeoutFlat(attempt) == HttpBaseTimeout

\* line 103: timeout = 15 + (attempt * 5)
HttpTimeout(attempt) == HttpBaseTimeout + attempt * HttpTimeoutStep

\* what every other variable does while a thread steps through get_reply
GrFrame == UNCHANGED <<sent, faults, cfg, loop, last_message_time, clock>>

\* lines 81-83 and the start of the for loop
GrEntry(t) ==
    LET r == [th[t] EXCEPT !.attempt = 0, !.result = <<>>, !.posts = 0,
                           !.timeouts = <<>>, !.waits = <<>>, !.outcomes = <<>>]
    IN  /\ th[t].pc = "gr_entry"
        /\ IF KeyMissing(api_key)
           THEN th' = [th EXCEPT ![t] = Ret([r EXCEPT !.result = NotConfigured])]
           ELSE th' = [th EXCEPT ![t] = [r EXCEPT !.pc = "gr_loop"]]
        /\ GrFrame

\* line 85: the next attempt of range(retries + 1), up to the POST of line 105 being
\* sent; line 138 when the range is used up
GrLoop(t) ==
    LET r == th[t] IN
    /\ r.pc = "gr_loop"
    /\ IF r.attempt < r.retries + 1
       THEN th' = [th EXCEPT ![t].pc = "gr_http", ![t].posts = r.posts + 1,
                             ![t].timeouts = Append(r.timeouts, HttpTimeout(r.attempt))]
       ELSE th' = [th EXCEPT ![t] = Ret([r EXCEPT !.result = Unavailable])]
    /\ GrFrame

\* lines 105-136: the POST ends, and the rest of the attempt's body runs up to its
\* return, its raise, or the start of its sleep
GrHttp(t) ==
    LET r == th[t] IN
    /\ r.pc = "gr_http"
    /\ \E outcome \in Outcomes, content \in ReplyContents :
          LET h == OnAttempt(outcome, content, r.attempt, r.retries)
              q == [r EXCEPT !.outcomes = Append(r.outcomes, outcome)]
          IN  /\ outcome # "ok" => content = CHOOSE c \in ReplyContents : TRUE
              /\ th' = [th EXCEPT ![t] =
                          CASE h.kind = "return" -> Ret([q EXCEPT !.result = h.value])
                            [] h.kind = "retry" ->
                                  [q EXCEPT !.pc = "gr_wait",
                                            !.waits = IF h.wait > 0 THEN Append(r.waits, h.wait)
                                                      ELSE r.waits]
                            [] h.kind = "raise" -> Raise(q)]
    /\ GrFrame

\* lines 120-121, 129-130: the sleep ends, continue with the next attempt
GrWait(t) ==
    /\ th[t].pc = "gr_wait"
    /\ th' = [th EXCEPT ![t].pc = "gr_loop", ![t].attempt = th[t].attempt + 1]
    /\ GrFrame

\* get_reply called with any retries, with and without a key
ReplyInit ==
    /\ \E n \in -1..MaxRetries :
          th = [t \in Threads |->
                  IF t = 1 THEN [NoThread EXCEPT !.pc = "gr_entry", !.retries = n]
                  ELSE NoThread]
    /\ sent = <<>>
    /\ faults = 0
    /\ max_message_length = 1
    /\ api_key \in {"None", "", "sk"}
    /\ IdleListener

ReplyNext == \E t \in Threads : GrEntry(t) \/ GrLoop(t) \/ GrHttp(t) \/ GrWait(t)

ReplySpec == ReplyInit /\ [][ReplyNext]_vars

\* every string get_reply can return
ReplyStrings ==
    {NotConfigured, StillThinking, TimeoutMsg, NetworkProblem, ProcessingError, Unavailable}
        \cup {BannerLine \o c : c \in ReplyContents}

\* DeepSeekAPI.API_KEY is None or the empty string
NoKeyConfigured == api_key \in {"None", ""}

InGetReply(t) == th[t].pc \in {"gr_entry", "gr_loop", "gr_http", "gr_wait"}

AllOutcomes(t, kinds) == \A j \in 1..Len(th[t].outcomes) : th[t].outcomes[j] \in kinds

\* C2: get_reply never raises and ends with one of its strings; it never stops before
\* its return; it POSTs at most retries+1 times, and exactly retries+1 times when a key
\* is set and every attempt ended in a timeout.
C2_GetReplyTotalAndBounded ==
    \A t \in Threads :
        /\ th[t].pc # "raised"
        /\ InGetReply(t) => ENABLED ReplyNext
        /\ th[t].posts <= th[t].retries + 1
        /\ th[t].attempt <= th[t].retries + 1
        /\ th[t].pc = "done" =>
              /\ th[t].result \in ReplyStrings
              /\ (~NoKeyConfigured /\ AllOutcomes(t, {"timeout"}))
                    => th[t].posts = th[t].retries + 1

\* C2 witness: the default call returned after three attempts that all timed out.
C2_Witness ==
    \E t \in Threads :
        /\ th[t].pc = "done"
        /\ th[t].retries = DefaultRetries
        /\ th[t].outcomes = <<"timeout", "timeout", "timeout">>
        /\ th[t].posts = DefaultRetries + 1

\* the call made all of its retries+1 attempts and each of them failed
Exhausted(t) ==
    /\ th[t].pc = "done"
    /\ th[t].retries >= 0
    /\ Len(th[t].outcomes) = th[t].retries + 1
    /\ AllOutcomes(t, {"timeout"}) \/ AllOutcomes(t, {"transport"})

\* the same, with timeouts and transport failures in any mix
ExhaustedMixed(t) ==
    /\ th[t].pc = "done"
    /\ th[t].retries >= 0
    /\ Len(th[t].outcomes) = th[t].retries + 1
    /\ AllOutcomes(t, {"timeout", "transport"})

\* C3 as stated: when all retries+1 attempts failed, all by timeout or all by a
\* transport failure, get_reply returns the "service temporarily unavailable" string.
C3_ExhaustedReturnsUnavailable ==
    \A t \in Threads : Exhausted(t) => th[t].result = Unavailable

\* C3 amended: when all retries+1 attempts failed, the last failure decides the value:
\* the timeout string after a timeout, the network string after a transport failure;
\* the "service temporarily unavailable" string is returned only by a call that made
\* no attempt (retries < 0).
C3_ExhaustedReturnsLastFailure ==
    \A t \in Threads :
        /\ ExhaustedMixed(t) =>
              th[t].result = IF th[t].outcomes[Len(th[t].outcomes)] = "timeout"
                             THEN TimeoutMsg ELSE NetworkProblem
        /\ (th[t].pc = "done" /\ th[t].result = Unavailable)
              => (th[t].retries < 0 /\ th[t].posts = 0)

\* C3 witness: three transport failures in a row, and the value returned for them.
C3_Witness ==
    \E t \in Threads :
        /\ Exhausted(t)
        /\ th[t].outcomes = <<"transport", "transport", "transport">>
        /\ th[t].result = NetworkProblem

\* C10: without an API key get_reply returns the "not configured" string, and no POST
\* and no wait happens at any point of the call.
C10_NoKeyNoAttempt ==
    \A t \in Threads :
        NoKeyConfigured =>
            /\ th[t].posts = 0 /\ th[t].waits = <<>> /\ th[t].timeouts = <<>>
            /\ th[t].pc \notin {"gr_http", "gr_wait"}
            /\ th[t].pc = "done" => th[t].result = NotConfigured

\* C10 witness: a call that returned with the key set to the empty string.
C10_Witness ==
    \E t \in Threads :
        th[t].pc = "done" /\ api_key = "" /\ th[t].result = NotConfigured

\* the transport of the j-th attempt succeeded and the response has no reply field:
\* "empty" is a response without choices (line 110 false), "other" one whose
\* choices[0] has no message.content (line 111 raises KeyError)
LacksReplyField(t, j) == th[t].outcomes[j] \in {"empty", "other"}

\* the call ended on its j-th attempt, which no wait followed
EndedOnAttempt(t, j) ==
    /\ j = Len(th[t].outcomes)
    /\ th[t].pc = "done"
    /\ th[t].posts = j
    /\ Len(th[t].waits) = j - 1

\* C11 as stated: an attempt whose response lacks the reply field (no choices, or
\* choices[0] without message.content) ends the call with the "still thinking"
\* string, with no further attempt and no wait.
C11_NoReplyFieldReturnsStillThinking ==
    \A t \in Threads : \A j \in 1..Len(th[t].outcomes) :
        LacksReplyField(t, j) => (EndedOnAttempt(t, j) /\ th[t].result = StillThinking)

\* C11 amended: such an attempt ends the call with no further attempt and no wait;
\* the value is the "still thinking" string for a response without choices and the
\* "error while processing the message" string for choices[0] without
\* message.content.
C11_NoReplyFieldEndsCall ==
    \A t \in Threads : \A j \in 1..Len(th[t].outcomes) :
        LacksReplyField(t, j) =>
            /\ EndedOnAttempt(t, j)
            /\ th[t].result = IF th[t].outcomes[j] = "empty" THEN StillThinking
                               ELSE ProcessingError

\* C11 witness: after a timeout and its wait, the second attempt of the default call
\* got a response without choices and the call returned the "still thinking" string.
C11_Witness ==
    \E t \in Threads :
        /\ th[t].pc = "done"
        /\ th[t].retries = DefaultRetries
        /\ th[t].outcomes = <<"timeout", "empty">>
        /\ th[t].result = StillThinking
        /\ th[t].waits = <<TimeoutWaitBase>>

\* C22: in get_reply the attempt with 0-based index i is POSTed with a timeout of
\* 15 + 5*i; a wait follows an attempt only if it failed and i < retries, of 1 + i
\* after a timeout and of 1 after a transport failure; the call ends with no wait
\* after its last attempt, succeeded or failed.
C22_TimeoutsAndWaits ==
    \A t \in Threads :
        /\ Len(th[t].timeouts) = th[t].posts
        /\ \A j \in 1..Len(th[t].timeouts) : th[t].timeouts[j] = 15 + 5 * (j - 1)
        /\ Len(th[t].waits) <= Len(th[t].outcomes)
        /\ \A j \in 1..Len(th[t].waits) :
              /\ j - 1 < th[t].retries
              /\ th[t].outcomes[j] \in {"timeout", "transport"}
              /\ th[t].waits[j] = IF th[t].outcomes[j] = "timeout" THEN 1 + (j - 1) ELSE 1
        /\ th[t].pc = "gr_wait" => Len(th[t].waits) = Len(th[t].outcomes)
        /\ (th[t].pc = "done" /\ th[t].outcomes # <<>>) =>
              Len(th[t].waits) = Len(th[t].outcomes) - 1

\* C22 witness: a call with retries = 3 whose attempts ended in a timeout, a transport
\* failure, a timeout and a reply: timeouts 15, 20, 25, 30 and waits 1, 1, 3.
C22_Witness ==
    \E t \in Threads :
        /\ th[t].pc = "done"
        /\ th[t].outcomes = <<"timeout", "transport", "timeout", "ok">>
        /\ th[t].timeouts = <<15, 20, 25, 30>>
        /\ th[t].waits = <<1, 1, 3>>

\* ----------------------------------------------------- send_long_message
\* lines 219-222: where the next part ends
SplitIndex(message, maxlen) ==
    IF Len(message) > maxlen
    THEN LET k == RFind(message, NL, maxlen)
         IN  IF k = -1 THEN maxlen ELSE k
    ELSE Len(message)

\* line 223: part = message[:split_index] (line 226 when the rest fits)
SplitPart(message, maxlen) == Take(message, SplitIndex(message, maxlen))

\* a cut that also swallows the character at the cut
SplitRestSkipsOne(message, maxlen) == Drop(message, SplitIndex(message, maxlen) + 1)

\* line 224: message = message[split_index:] (line 227 when the rest fits)
SplitRest(message, maxlen) == Drop(message, SplitIndex(message, maxlen))

\* the banner line taken out of the first part too
StripBannerEveryPart(i, part) ==
    IF Contains(part, Banner) THEN Remove(part, BannerLine) ELSE part

\* lines 232-233: the text of part i as passed to SendMsg
StripBanner(i, part) ==
    IF i > 0 /\ Contains(part, Banner) THEN Remove(part, BannerLine) ELSE part

EmptyParts(parts) == Cardinality({j \in 1..Len(parts) : parts[j] = <<>>})

\* line 217: parts = []
SlmEntry(t) ==
    /\ th[t].pc = "slm_entry"
    /\ th' = [th EXCEPT ![t].pc = "slm_split", ![t].parts = <<>>,
                        ![t].text = th[t].message]
    /\ UNCHANGED <<sent, faults, cfg, loop, last_message_time, clock>>

\* lines 218-228: one evaluation of `while message:` and, if it holds, one iteration
SlmSplit(t) ==
    LET r == th[t]
        part == SplitPart(r.message, max_message_length)
    IN  /\ r.pc = "slm_split"
        /\ IF r.message = <<>>
           THEN th' = [th EXCEPT ![t].pc = "slm_send", ![t].i = 0]
           ELSE /\ part # <<>> \/ EmptyParts(r.parts) < MaxStuck
                /\ th' = [th EXCEPT ![t].parts = Append(r.parts, part),
                                    ![t].message = SplitRest(r.message, max_message_length)]
        /\ UNCHANGED <<sent, faults, cfg, loop, last_message_time, clock>>

\* lines 230-238: one iteration of the send loop (SendMsg, then the 0.5 s pacing
\* sleep, or the except branch), or the end of the loop and the return
SlmSend(t) ==
    LET r == th[t] IN
    /\ r.pc = "slm_send"
    /\ IF r.i >= Len(r.parts)
       THEN /\ th' = [th EXCEPT ![t] = Ret([r EXCEPT !.text = <<>>, !.parts = <<>>, !.i = 0])]
            /\ UNCHANGED <<sent, faults>>
       ELSE \E ok \in BOOLEAN :
            /\ ok \/ faults < MaxFaults
            /\ sent' = Append(sent, [to |-> r.who, text |-> StripBanner(r.i, r.parts[r.i + 1]),
                                     ok |-> ok, seg |-> r.i, kind |-> "segment"])
            /\ faults' = IF ok THEN faults ELSE faults + 1
            /\ th' = [th EXCEPT ![t].i = r.i + 1, ![t].trace = Traced(r, "send")]
    /\ UNCHANGED <<cfg, loop, last_message_time, clock>>

\* ------------------------------------------------- texts of the split check
Tokens == {<<"a">>, <<NL>>, Banner}

RECURSIVE TokenTexts(_)
TokenTexts(n) ==
    IF n = 0 THEN {<<>>}
    ELSE LET shorter == TokenTexts(n - 1)
         IN  shorter \cup {s \o tok : s \in shorter, tok \in Tokens}

\* send_long_message called on any text, for any max_message_length > 0
SplitInit ==
    /\ \E text \in TokenTexts(MaxTokens) :
          th = [t \in Threads |->
                  IF t = 1 THEN [NoThread EXCEPT !.pc = "slm_entry", !.who = "Alice",
                                                 !.message = text]
                  ELSE NoThread]
    /\ sent = <<>>
    /\ faults = MaxFaults - 1      \* one more backend call of the run may raise
    /\ max_message_length \in 1..MaxML
    /\ api_key = "None"
    /\ IdleListener

SplitNext == \E t \in Threads : SlmEntry(t) \/ SlmSplit(t) \/ SlmSend(t)

SplitSpec == SplitInit /\ [][SplitNext]_vars

InSlm(t) == th[t].pc \in {"slm_split", "slm_send"}

\* the text is a successful reply of get_reply: the banner line, then the content
IsBannerReply(text) == Len(text) >= Len(BannerLine) /\ Take(text, Len(BannerLine)) = BannerLine

\* C4: the splitting loop of send_long_message terminates for every text longer
\* than max_message_length: every iteration that stays in the loop leaves a
\* strictly shorter remainder, so the loop cannot run for ever.
C4_SplitLoopTerminates ==
    [][\A t \in Threads :
          (/\ th[t].pc = "slm_split" /\ th'[t].pc = "slm_split"
           /\ IsBannerReply(th[t].text)
           /\ Len(th[t].text) > max_message_length)
          => Len(th'[t].message) < Len(th[t].message)]_vars

\* C5: at every point of send_long_message the parts cut so far, concatenated in
\* order, followed by the text still to cut, are the original text; when the
\* splitting loop has ended the parts alone are the original text.
C5_PartsConcatToText ==
    \A t \in Threads :
        InSlm(t) =>
            /\ Concat(th[t].parts) \o th[t].message = th[t].text
            /\ th[t].pc = "slm_send" => Concat(th[t].parts) = th[t].text

\* C5 witness: a finished split with a cut at a newline and a cut at exactly
\* max_message_length.
C5_Witness ==
    \E t \in Threads :
        /\ th[t].pc = "slm_send"
        /\ Len(th[t].parts) >= 3
        /\ \E j \in 2..Len(th[t].parts) :
              /\ th[t].parts[j] # <<>> /\ Head(th[t].parts[j]) = NL
              /\ Len(th[t].parts[j - 1]) < max_message_length
        /\ \E j \in 2..Len(th[t].parts) :
              /\ Len(th[t].parts[j - 1]) = max_message_length
              /\ th[t].parts[j] # <<>> /\ Head(th[t].parts[j]) # NL

\* C6: in the chunked send of a successful reply no segment after the first is
\* passed to SendMsg with the banner in it.
C6_BannerOnlyInFirstSegment ==
    \A t \in Threads :
        (th[t].pc = "slm_send" /\ IsBannerReply(th[t].text)
            /\ Len(th[t].text) > max_message_length)
        => \A j \in 1..Len(sent) :
              (sent[j].kind = "segment" /\ sent[j].seg > 0)
              => ~Contains(sent[j].text, Banner)

\* the text is one that get_reply returns: the banner line followed by any content
\* (line 112), or a text without the banner (lines 83, 115, 124, 132, 136, 138)
IsReplyText(text) == IsBannerReply(text) \/ ~Contains(text, Banner)

\* C23: for every text that get_reply can return and every max_message_length > 0,
\* every segment send_long_message passes to SendMsg is non-empty and at most
\* max_message_length long.
C23_SegmentsWithinLimits ==
    \A t \in Threads :
        (th[t].pc = "slm_send" /\ IsReplyText(th[t].text)) =>
            \A k \in 1..Len(sent) :
                sent[k].kind = "segment" =>
                    /\ sent[k].text # <<>>
                    /\ Len(sent[k].text) <= max_message_length

\* C23 witness: the reply "banner, newline, banner, newline" was sent with
\* max_message_length = 15 in two segments, the banner and, with its banner line
\* taken out, a newline.
C23_Witness ==
    \E t \in Threads :
        /\ th[t].pc = "slm_send"
        /\ th[t].text = BannerLine \o BannerLine
        /\ Len(sent) = 2
        /\ sent[1].text = Banner /\ sent[1].ok
        /\ sent[2].text = <<NL>> /\ sent[2].ok

\* ------------------------------------------------------- process_message
DefaultMaxLen == 2000

\* a short max_message_length, so that replies are chunked too
SmallML == 14

\* the rule that decides a message, lines 187-199, with the self check left out
FilterDecisionNoSelf(msg, who, self, listen) ==
    IF \E kw \in skip_keywords : Contains(msg.content, kw) THEN "phrase"
    ELSE IF msg.type = "friend" /\ who \in listen THEN "forward"
    ELSE "other"

\* the rule with the watch-list test left out
FilterDecisionNoList(msg, who, self, listen) ==
    IF msg.sender = self THEN "self"
    ELSE IF \E kw \in skip_keywords : Contains(msg.content, kw) THEN "phrase"
    ELSE IF msg.type = "friend" THEN "forward"
    ELSE "other"

\* lines 187-199: which rule decides the message
FilterDecision(msg, who, self, listen) ==
    IF msg.sender = self THEN "self"
    ELSE IF \E kw \in skip_keywords : Contains(msg.content, kw) THEN "phrase"
    ELSE IF msg.type = "friend" /\ who \in listen THEN "forward"
    ELSE "other"

\* d[who] = now
Store(d, who, now) == [p \in DOMAIN d \cup {who} |-> IF p = who THEN now ELSE d[p]]

\* last_message_time stored before the self check
LastSeenAlways(lmt, msg, who, self, now) == Store(lmt, who, now)

\* lines 187-191: last_message_time after the message
LastSeenAfter(lmt, msg, who, self, now) ==
    IF msg.sender = self THEN lmt ELSE Store(lmt, who, now)

\* the frame of get_reply once its value is taken
GrGone(r) ==
    [r EXCEPT !.retries = 0, !.attempt = 0, !.result = <<>>, !.posts = 0,
              !.timeouts = <<>>, !.waits = <<>>, !.outcomes = <<>>]

\* the return of process_message: api_reply goes with the frame
PmRet(r) == Ret([r EXCEPT !.api_reply = <<>>])

\* chat.SendMsg(text): the call is logged with its outcome; it may raise
SendMsg(who, text, ok, seg, kind) ==
    /\ ok \/ faults < MaxFaults
    /\ sent' = Append(sent, [to |-> who, text |-> text, ok |-> ok, seg |-> seg, kind |-> kind])
    /\ faults' = IF ok THEN faults ELSE faults + 1

\* msg.content of a message object whose content is None instead of a str
NoneContent == <<"None">>

\* content[:20] (line 188) and `keyword in content` (line 195) raise TypeError unless
\* content is a str
IsStr(content) == content # NoneContent

\* lines 183-201: the filter, up to the return or the call of get_reply; with a
\* content that is no str line 188 (own message) or line 195 (any other, after the
\* store of line 191) raises, outside the try of line 200
PmEntry(t) ==
    LET r == [th[t] EXCEPT !.trace = Traced(th[t], "pm")]
        d == FilterDecision(r.msg, r.who, self_name, listen_list)
    IN  /\ r.pc = "pm_entry"
        /\ last_message_time' = LastSeenAfter(last_message_time, r.msg, r.who, self_name, clock)
        /\ th' = [th EXCEPT ![t] =
                    IF ~IsStr(r.msg.content) THEN Raise(r)
                    ELSE IF d = "forward"
                    THEN [r EXCEPT !.pc = "gr_entry", !.stack = <<"pm_reply">> \o r.stack,
                                   !.retries = DefaultRetries, !.trace = Traced(r, "gr")]
                    ELSE Ret(r)]
        /\ UNCHANGED <<sent, faults, cfg, loop, clock>>

\* lines 201-208: get_reply returned; a long reply goes to send_long_message, a
\* short one to SendMsg, which may raise into the except of line 209
PmReply(t) ==
    LET r == GrGone([th[t] EXCEPT !.api_reply = th[t].result]) IN
    /\ th[t].pc = "pm_reply"
    /\ IF Len(r.api_reply) > max_message_length
       THEN /\ th' = [th EXCEPT ![t] = [r EXCEPT !.pc = "slm_entry",
                                                 !.stack = <<"pm_sent">> \o r.stack,
                                                 !.message = r.api_reply]]
            /\ UNCHANGED <<sent, faults>>
       ELSE \E ok \in BOOLEAN :
            /\ SendMsg(r.who, r.api_reply, ok, -1, "reply")
            /\ th' = [th EXCEPT ![t] =
                        LET q == [r EXCEPT !.trace = Traced(r, "send")]
                        IN  IF ok THEN PmRet(q) ELSE [q EXCEPT !.pc = "pm_apology"]]
    /\ UNCHANGED <<cfg, loop, last_message_time, clock>>

\* line 205: send_long_message returned
PmSent(t) ==
    /\ th[t].pc = "pm_sent"
    /\ th' = [th EXCEPT ![t] = PmRet(th[t])]
    /\ UNCHANGED <<sent, faults, cfg, loop, last_message_time, clock>>

\* lines 209-214: the apology, whose own failure is swallowed
PmApology(t) ==
    /\ th[t].pc = "pm_apology"
    /\ \E ok \in BOOLEAN : SendMsg(th[t].who, Apology, ok, -1, "apology")
    /\ th' = [th EXCEPT ![t] = PmRet([th[t] EXCEPT !.trace = Traced(th[t], "send")])]
    /\ UNCHANGED <<cfg, loop, last_message_time, clock>>

Senders == {"Bot", "Alice"}

MsgTypes == {"friend", "sys", "self"}

\* message texts: up to two pieces, each a plain word or one of the skip keywords
ContentPieces == {<<"h", "i">>} \cup skip_keywords

Contents ==
    {<<>>} \cup ContentPieces \cup {a \o b : a \in ContentPieces, b \in ContentPieces}

Messages == [sender : Senders, type : MsgTypes, content : Contents, id : {0}]

\* process_message called on any message of any peer, for any watch list
FilterInit ==
    /\ \E who \in Peers, m \in Messages :
          th = [t \in Threads |->
                  IF t = 1 THEN [NoThread EXCEPT !.pc = "pm_entry", !.who = who, !.msg = m]
                  ELSE NoThread]
    /\ sent = <<>>
    /\ faults = 0
    /\ max_message_length \in {SmallML, DefaultMaxLen}
    /\ api_key \in {"None", "sk"}
    /\ listen_list \in {{"Alice"}, {"Alice", "Bob"}}
    /\ self_name \in {"Bot", "unknown"}
    /\ last_message_time \in {<<>>, [p \in {"Alice"} |-> 0]}
    /\ clock = 1
    /\ IdleLoop

FilterNext ==
    \E t \in Threads :
        \/ PmEntry(t) \/ PmReply(t) \/ PmSent(t) \/ PmApology(t)
        \/ GrEntry(t) \/ GrLoop(t) \/ GrHttp(t) \/ GrWait(t)
        \/ SlmEntry(t) \/ SlmSplit(t) \/ SlmSend(t)

FilterSpec == FilterInit /\ [][FilterNext]_vars

\* the four conditions of a forwarded message
Qualifies(msg, who) ==
    /\ msg.sender # self_name
    /\ \A kw \in skip_keywords : ~Contains(msg.content, kw)
    /\ msg.type = "friend"
    /\ who \in listen_list

\* C7: while and after process_message handles a message whose sender is self_name,
\* the thread is never inside get_reply or a send, nothing is sent and nothing is
\* POSTed.
C7_SelfMessageNeverForwarded ==
    \A t \in Threads :
        (th[t].pc # "none" /\ th[t].msg.sender = self_name) =>
            /\ th[t].pc \in {"pm_entry", "done"}
            /\ sent = <<>>
            /\ th[t].posts = 0

\* C7 witness: a self-authored message that qualifies in every other respect was
\* handled.
C7_Witness ==
    \E t \in Threads :
        /\ th[t].pc = "done"
        /\ th[t].msg.sender = self_name
        /\ th[t].msg.type = "friend"
        /\ th[t].who \in listen_list
        /\ th[t].msg.content = <<"h", "i">>

\* C8: the filter step of process_message calls get_reply exactly when the sender is
\* not self_name, the content has none of the four phrases, the type is 'friend' and
\* the peer is in listen_list; otherwise it returns.  The rules apply in the order
\* self, then phrase and type/watch-list: a self-authored message returns before
\* last_message_time is stored, every other message after it (the time stored, 1,
\* differs from every time stored before).
C8_ForwardExactlyWhenQualified ==
    [][\A t \in Threads :
          th[t].pc = "pm_entry" =>
            /\ (th'[t].pc = "gr_entry") <=> Qualifies(th[t].msg, th[t].who)
            /\ (th'[t].pc # "gr_entry") => (th'[t].pc = "done" /\ sent' = <<>>)
            /\ th[t].msg.sender = self_name => last_message_time' = last_message_time
            /\ th[t].msg.sender # self_name => last_message_time' # last_message_time
      ]_vars

\* C8 witness: a message with a system phrase that qualifies in every other respect
\* was rejected, and a qualifying message is inside get_reply.
C8_WitnessRejected ==
    \E t \in Threads :
        /\ th[t].pc = "done"
        /\ th[t].msg.sender # self_name
        /\ th[t].msg.type = "friend"
        /\ th[t].who \in listen_list
        /\ \E kw \in skip_keywords : Contains(th[t].msg.content, kw)
        /\ th[t].result = <<>>

\* C9 as stated: once process_message has handled a message, whatever rule decided
\* it, last_message_time of its peer is the time of the call.
C9_EveryMessageUpdatesLastSeen ==
    \A t \in Threads :
        th[t].pc \notin {"none", "pm_entry"} =>
            /\ th[t].who \in DOMAIN last_message_time
            /\ last_message_time[th[t].who] = clock

\* C9 amended: the filter step stores the time of the call as last_message_time of
\* the peer for every message whose sender is not self_name, whichever of the other
\* rules decides it, and leaves last_message_time as it was for a message of self_name.
C9_NonSelfMessageUpdatesLastSeen ==
    [][\A t \in Threads :
          th[t].pc = "pm_entry" =>
            IF th[t].msg.sender = self_name
            THEN last_message_time' = last_message_time
            ELSE /\ th[t].who \in DOMAIN last_message_time'
                 /\ last_message_time'[th[t].who] = clock
                 /\ \A p \in DOMAIN last_message_time' \ {th[t].who} :
                       p \in DOMAIN last_message_time
                       /\ last_message_time'[p] = last_message_time[p]
      ]_vars

\* C9 witness: a message rejected for its phrase and one rejected for its type have
\* updated last_message_time; a self-authored one has left the peer without an entry.
C9_Witness ==
    \E t \in Threads :
        /\ th[t].pc = "done"
        /\ th[t].msg.sender # self_name
        /\ th[t].msg.type = "sys"
        /\ th[t].who = "Bob"
        /\ "Bob" \in DOMAIN last_message_time
        /\ last_message_time["Bob"] = clock

\* process_message has returned to its caller
Returned(t) == th[t].pc \in {"done", "lm_msg"}

\* the k-th SendMsg call carried a reply, whole or as a segment, and raised
ReplySendFailed(k) == sent[k].kind \in {"reply", "segment"} /\ ~sent[k].ok

\* C13: whenever a SendMsg of the reply of an accepted message raises, on the
\* single-send path or for any segment of the chunked path, the apology is sent (or
\* attempted) to the same peer before process_message returns.
C13_SendFailureLeadsToApology ==
    \A t \in Threads :
        Returned(t) =>
            \A k \in 1..Len(sent) :
                ReplySendFailed(k) =>
                    \E n \in (k + 1)..Len(sent) :
                        sent[n].kind = "apology" /\ sent[n].to = sent[k].to

\* a SendMsg call to the peer returned: the peer has received a reply, a segment of
\* one, a fallback string or the apology
Delivered(who) ==
    \E k \in 1..Len(sent) :
        sent[k].ok /\ sent[k].to = who /\ sent[k].kind \in {"reply", "segment", "apology"}

\* C14: an accepted message never ends with nothing delivered to its peer: when
\* process_message returns for it, at least one SendMsg to the peer has succeeded,
\* also when individual SendMsg calls failed.
C14_AcceptedMessageIsAnswered ==
    \A t \in Threads :
        (Returned(t) /\ Qualifies(th[t].msg, th[t].who)) => Delivered(th[t].who)

\* ------------------------------------------------------ send_time_report
TicksPerHour == 2     \* ticks of the clock in one hour; the first is minute 0, second < 10
MaxClock == 1         \* the clock stops at this tick
HoursPerDay == 24

\* now.hour (line 243)
Hour(now) == (now \div TicksPerHour) % HoursPerDay

\* now.minute == 0 and now.second < 10 (line 245)
InGrace(now) == now % TicksPerHour = 0

\* the test of line 245 without its comparison with last_reported_hour
ReportDueAnyHour(now, last) == InGrace(now)

\* line 245: the announcement is due
ReportDue(now, last) == InGrace(now) /\ Hour(now) # last

\* the hour recorded whether or not SendMsg returned
ReportedAlways(last, hour, ok) == hour

\* lines 249-251: last_reported_hour after the SendMsg of line 249, which skips line
\* 251 when it raises
ReportedAfter(last, hour, ok) == IF ok THEN hour ELSE last

\* line 247: time_report_message.format(time=...), as far as the hour
ReportText(hour) == <<"report", hour>>

\* lines 268-269 and 242-247: the report check of a cycle
LmReport(t) ==
    /\ th[t].pc = "lm_report"
    /\ IF ReportDue(clock, last_reported_hour)
       THEN th' = [th EXCEPT ![t].pc = "str_send", ![t].cur_hour = Hour(clock)]
       ELSE th' = [th EXCEPT ![t].pc = "lm_fetch"]
    /\ UNCHANGED <<sent, faults, cfg, loop, last_message_time, clock>>

\* lines 249-254: the announcement is sent and the hour recorded, or SendMsg raises
\* and the except of line 253 logs it
StrSend(t) ==
    /\ th[t].pc = "str_send"
    /\ \E ok \in BOOLEAN :
          /\ SendMsg(time_report_who, ReportText(th[t].cur_hour), ok, -1, "report")
          /\ last_reported_hour' = ReportedAfter(last_reported_hour, th[t].cur_hour, ok)
    /\ th' = [th EXCEPT ![t].pc = "lm_fetch", ![t].cur_hour = -1]
    /\ UNCHANGED <<cfg, running, listener_thread, ctl, inbox, arrivals,
                   last_message_time, clock>>

\* ------------------------------------------------------- listen_messages
PollInterval == 1
ErrorBackoff == 5

\* the orders in which a dict with these keys can be iterated
Orders(keys) ==
    {o \in [1..Cardinality(keys) -> keys] : \A i, j \in DOMAIN o : i # j => o[i] # o[j]}

\* lines 260-264: the history is fetched and dropped, or the fetch raises
LmDrain(t) ==
    /\ th[t].pc = "lm_drain"
    /\ \E ok \in BOOLEAN :
          /\ ok \/ faults < MaxFaults
          /\ inbox' = IF ok THEN NoInbox ELSE inbox
          /\ faults' = IF ok THEN faults ELSE faults + 1
    /\ th' = [th EXCEPT ![t].pc = "lm_while"]
    /\ UNCHANGED <<sent, cfg, last_reported_hour, running, listener_thread, ctl, arrivals,
                   last_message_time, clock>>

\* the loop of line 266 as `while True`
LmWhileTrue(t) ==
    /\ th[t].pc = "lm_while"
    /\ th' = [th EXCEPT ![t].pc = IF time_report THEN "lm_report" ELSE "lm_fetch"]
    /\ UNCHANGED <<sent, faults, cfg, loop, last_message_time, clock>>

\* line 266: while self.running, and line 268: if self.time_report
LmWhile(t) ==
    /\ th[t].pc = "lm_while"
    /\ th' = [th EXCEPT ![t].pc = IF ~running THEN "done"
                                  ELSE IF time_report THEN "lm_report" ELSE "lm_fetch"]
    /\ UNCHANGED <<sent, faults, cfg, loop, last_message_time, clock>>

\* line 271: the batch of the cycle, or the fetch raises into the except of line 279
LmFetch(t) ==
    /\ th[t].pc = "lm_fetch"
    /\ \/ /\ \E o \in Orders({p \in Peers : inbox[p] # <<>>}) :
                th' = [th EXCEPT ![t].pc = "lm_chat",
                                 ![t].batch = [i \in DOMAIN o |->
                                                 [who |-> o[i], msgs |-> inbox[o[i]]]]]
          /\ inbox' = NoInbox
          /\ UNCHANGED faults
       \/ /\ faults < MaxFaults
          /\ faults' = faults + 1
          /\ th' = [th EXCEPT ![t].pc = "lm_backoff"]
          /\ UNCHANGED inbox
    /\ UNCHANGED <<sent, cfg, last_reported_hour, running, listener_thread, ctl, arrivals,
                   last_message_time, clock>>

\* lines 272-274: the next chat of the batch; line 278 starts when there is none
LmChat(t) ==
    LET r == th[t] IN
    /\ r.pc = "lm_chat"
    /\ IF r.batch = <<>>
       THEN th' = [th EXCEPT ![t].pc = "lm_sleep"]
       ELSE IF Head(r.batch).who \in listen_list
       THEN th' = [th EXCEPT ![t].pc = "lm_msg", ![t].chat = Head(r.batch).who,
                             ![t].one_msgs = Head(r.batch).msgs, ![t].batch = Tail(r.batch)]
       ELSE th' = [th EXCEPT ![t].chat = Head(r.batch).who, ![t].batch = Tail(r.batch)]
    /\ UNCHANGED <<sent, faults, cfg, loop, last_message_time, clock>>

\* one_msgs without its k-th element
Without(one_msgs, k) == SubSeq(one_msgs, 1, k - 1) \o SubSeq(one_msgs, k + 1, Len(one_msgs))

\* a loop that takes the newest message first
NextIndexNewest(one_msgs) == Len(one_msgs)

\* line 275: `for msg in one_msgs` takes the messages from the front of the list
NextIndex(one_msgs) == 1

\* lines 275-276: the next message of the chat goes to process_message
LmMsg(t) ==
    LET r == th[t]
        k == NextIndex(r.one_msgs)
    IN  /\ r.pc = "lm_msg"
        /\ IF r.one_msgs = <<>>
           THEN th' = [th EXCEPT ![t].pc = "lm_chat"]
           ELSE th' = [th EXCEPT ![t].pc = "pm_entry", ![t].stack = <<"lm_msg">> \o r.stack,
                                 ![t].who = r.chat, ![t].msg = r.one_msgs[k],
                                 ![t].one_msgs = Without(r.one_msgs, k)]
    /\ UNCHANGED <<sent, faults, cfg, loop, last_message_time, clock>>

\* line 278: time.sleep(wait) ends
LmSleep(t) ==
    /\ th[t].pc = "lm_sleep"
    /\ th' = [th EXCEPT ![t].pc = "lm_while"]
    /\ UNCHANGED <<sent, faults, cfg, loop, last_message_time, clock>>

\* lines 279-281: time.sleep(5) ends; what was left of the batch is dropped
LmBackoff(t) ==
    /\ th[t].pc = "lm_backoff"
    /\ th' = [th EXCEPT ![t].pc = "lm_while", ![t].batch = <<>>, ![t].one_msgs = <<>>]
    /\ UNCHANGED <<sent, faults, cfg, loop, last_message_time, clock>>

\* ----------------------------------------- start_listening, stop_listening
JoinTimeoutSecs == 2

\* the longest the thread can stay in the blocking call it is in, in seconds
\* (the 0.5 s pacing sleep of line 236 is part of the step that sends)
BlockedFor(r) ==
    CASE r.pc = "gr_http" -> HttpTimeout(r.attempt)
      [] r.pc = "gr_wait" /\ r.waits # <<>> -> r.waits[Len(r.waits)]
      [] r.pc = "lm_sleep" -> PollInterval
      [] r.pc = "lm_backoff" -> ErrorBackoff
      [] OTHER -> 0

Alive(t) == t \in Threads /\ th[t].pc \notin {"none", "done", "raised"}

\* line 284: if not self.running
StartGuard(is_running) == ~is_running

\* lines 284-291
StartListening ==
    /\ ctl = "idle"
    /\ IF StartGuard(running)
       THEN /\ listener_thread < MaxThreads
            /\ running' = TRUE
            /\ listener_thread' = listener_thread + 1
            /\ th' = [th EXCEPT ![listener_thread + 1] = [NoThread EXCEPT !.pc = "lm_drain"]]
       ELSE UNCHANGED <<running, listener_thread, th>>
    /\ UNCHANGED <<sent, faults, cfg, last_reported_hour, ctl, inbox, arrivals,
                   last_message_time, clock>>

\* lines 297-300, up to the start of join(timeout=2.0)
StopListening ==
    /\ ctl = "idle"
    /\ IF running
       THEN /\ running' = FALSE
            /\ ctl' = IF Alive(listener_thread) THEN "joining" ELSE "idle"
       ELSE UNCHANGED <<running, ctl>>
    /\ UNCHANGED <<th, sent, faults, cfg, last_reported_hour, listener_thread, inbox, arrivals,
                   last_message_time, clock>>

\* line 300: join returns because the thread has ended
JoinDone ==
    /\ ctl = "joining"
    /\ ~Alive(listener_thread)
    /\ ctl' = "idle"
    /\ UNCHANGED <<th, sent, faults, cfg, last_reported_hour, running, listener_thread, inbox,
                   arrivals, last_message_time, clock>>

\* line 300: join gives up after 2.0 s, the thread being in a call that can last longer
JoinTimeout ==
    /\ ctl = "joining"
    /\ Alive(listener_thread)
    /\ BlockedFor(th[listener_thread]) > JoinTimeoutSecs
    /\ ctl' = "idle"
    /\ UNCHANGED <<th, sent, faults, cfg, last_reported_hour, running, listener_thread, inbox,
                   arrivals, last_message_time, clock>>

\* ------------------------------------------------------ the environment
MaxArrivals == 1      \* messages that arrive at the backend in one run

\* the messages that arrive in Spec
ArrivingMessages ==
    {[sender |-> "Alice", type |-> "friend", content |-> <<"h", "i">>, id |-> 0],
     [sender |-> "Bot", type |-> "friend", content |-> <<"h", "i">>, id |-> 0],
     [sender |-> "Alice", type |-> "friend", content |-> NetworkProblem, id |-> 0]}

\* a message arrives in a chat
Arrive ==
    /\ arrivals < MaxArrivals
    /\ \E p \in Peers, m \in ArrivingMessages :
          inbox' = [inbox EXCEPT ![p] = Append(@, [m EXCEPT !.id = arrivals + 1])]
    /\ arrivals' = arrivals + 1
    /\ UNCHANGED <<th, sent, faults, cfg, last_reported_hour, running, listener_thread, ctl,
                   last_message_time, clock>>

\* time passes, up to a last tick
TickTo(last) ==
    /\ clock < last
    /\ clock' = clock + 1
    /\ UNCHANGED <<th, sent, faults, cfg, loop, last_message_time>>

Tick == TickTo(MaxClock)

\* ------------------------------------------------------------ the program
\* the state after WeChatListener.__init__ (lines 144-163)
Init ==
    /\ th = [t \in Threads |-> NoThread]
    /\ sent = <<>>
    /\ faults = 0
    /\ max_message_length = SmallML
    /\ api_key = "sk"
    /\ listen_list = {"Alice"}
    /\ self_name = "Bot"
    /\ last_message_time = <<>>
    /\ clock = 0
    /\ time_report \in BOOLEAN
    /\ time_report_who = "Alice"
    /\ last_reported_hour = -1
    /\ running = FALSE
    /\ listener_thread = 0
    /\ ctl = "idle"
    /\ inbox = NoInbox
    /\ arrivals = 0

Worker(t) ==
    \/ LmDrain(t) \/ LmWhile(t) \/ LmReport(t) \/ StrSend(t) \/ LmFetch(t)
    \/ LmChat(t) \/ LmMsg(t) \/ LmSleep(t) \/ LmBackoff(t)
    \/ PmEntry(t) \/ PmReply(t) \/ PmSent(t) \/ PmApology(t)
    \/ GrEntry(t) \/ GrLoop(t) \/ GrHttp(t) \/ GrWait(t)
    \/ SlmEntry(t) \/ SlmSplit(t) \/ SlmSend(t)

Next ==
    \/ StartListening \/ StopListening \/ JoinDone \/ JoinTimeout
    \/ Arrive \/ Tick
    \/ \E t \in Threads : Worker(t)

Spec == Init /\ [][Next]_vars

\* ---------------------------------- the loop over a sweep of the clock
\* the last tick of a sweep through two full hours
SweepEnd == 2 * TicksPerHour

\* a system notice in the chat of Alice
Notice == [sender |-> "Alice", type |-> "sys", content |-> <<"h", "i">>, id |-> 1]

\* the worker of a started listener at line 266, announcements on or off, at some
\* time of the first hour, with a notice waiting at the backend
ReportInit ==
    /\ th = [t \in Threads |-> IF t = 1 THEN [NoThread EXCEPT !.pc = "lm_while"] ELSE NoThread]
    /\ sent = <<>>
    /\ faults = 0
    /\ max_message_length = DefaultMaxLen
    /\ api_key = "sk"
    /\ listen_list = {"Alice"}
    /\ self_name = "Bot"
    /\ last_message_time = <<>>
    /\ clock \in 0..(TicksPerHour - 1)
    /\ time_report \in BOOLEAN
    /\ time_report_who = "Alice"
    /\ last_reported_hour = -1
    /\ running = TRUE
    /\ listener_thread = 1
    /\ ctl = "idle"
    /\ inbox = [NoInbox EXCEPT !["Alice"] = <<Notice>>]
    /\ arrivals = 1

\* the worker's cycles while the clock sweeps through two hours
ReportNext ==
    \/ TickTo(SweepEnd)
    \/ \E t \in Threads :
          \/ LmWhile(t) \/ LmReport(t) \/ StrSend(t) \/ LmFetch(t)
          \/ LmChat(t) \/ LmMsg(t) \/ PmEntry(t) \/ LmSleep(t) \/ LmBackoff(t)

ReportSpec == ReportInit /\ [][ReportNext]_vars

\* the k-th SendMsg call carried the announcement of the hour and returned
Announced(k, hour) ==
    sent[k].kind = "report" /\ sent[k].ok /\ sent[k].text = ReportText(hour)

\* a step that calls SendMsg with the announcement
AnnouncementStep ==
    Len(sent') = Len(sent) + 1 /\ sent'[Len(sent')].kind = "report"

C20_FailedReportIsNotRecorded ==
    /\ [][\A t \in Threads :
             (th[t].pc = "str_send" /\ th'[t].pc # "str_send") =>
                 /\ th'[t].pc = "lm_fetch"
                 /\ AnnouncementStep
                 /\ last_reported_hour' =
                        IF sent'[Len(sent')].ok THEN th[t].cur_hour ELSE last_reported_hour]_vars
    /\ [][last_reported_hour' # last_reported_hour =>
             (AnnouncementStep /\ sent'[Len(sent')].ok)]_vars

\* C20 witness: the first announcement of hour 0 failed, the same cycle fetched the
\* notice and passed it to process_message, and a later cycle inside the same grace
\* window sent the announcement of hour 0.
C20_Witness ==
    /\ Len(sent) = 2
    /\ sent[1].kind = "report" /\ ~sent[1].ok /\ sent[1].text = ReportText(0)
    /\ Announced(2, 0)
    /\ last_reported_hour = 0
    /\ clock = 0
    /\ \E t \in Threads : Handled(t) = {1}

\* ------------------------------------------- one run of one worker's loop
\* an accepted message of Alice
Hello == [sender |-> "Alice", type |-> "friend", content |-> <<"h", "i">>, id |-> 0]

\* the second message of Alice's batch: one that is accepted, one whose content is
\* None, one with a system phrase, one of the account itself
SecondMessages ==
    {Hello, [Hello EXCEPT !.content = NoneContent],
     [Hello EXCEPT !.content = NetworkProblem], [Hello EXCEPT !.sender = "Bot"]}

\* what GetListenMessage holds: three messages of Alice, the second being x, and a
\* system notice in the chat of Bob, numbered in the order of their arrival
Batch(x) ==
    [p \in Peers |->
        IF p = "Alice"
        THEN <<[Hello EXCEPT !.id = 1], [x EXCEPT !.id = 2], [Hello EXCEPT !.id = 3]>>
        ELSE <<[sender |-> "Bob", type |-> "sys", content |-> <<"h", "i">>, id |-> 4]>>]

\* the worker of a started listener at line 266, after the drain of line 261, with the
\* batch waiting at the backend
RunInit ==
    /\ th = [t \in Threads |-> IF t = 1 THEN [NoThread EXCEPT !.pc = "lm_while"] ELSE NoThread]
    /\ sent = <<>>
    /\ faults = 0
    /\ max_message_length = SmallML
    /\ api_key \in {"None", "sk"}
    /\ listen_list = {"Alice", "Bob"}
    /\ self_name = "Bot"
    /\ last_message_time = <<>>
    /\ clock = 0
    /\ time_report = FALSE
    /\ time_report_who = "Alice"
    /\ last_reported_hour = -1
    /\ running = TRUE
    /\ listener_thread = 1
    /\ ctl = "idle"
    /\ \E x \in SecondMessages : inbox = Batch(x)
    /\ arrivals = 4

\* the worker runs, stop_listening may be called, start_listening is not called again
RunNext ==
    \/ StopListening \/ JoinDone \/ JoinTimeout
    \/ \E t \in Threads :
          \/ LmWhile(t) \/ LmFetch(t) \/ LmChat(t) \/ LmMsg(t) \/ LmSleep(t) \/ LmBackoff(t)
          \/ PmEntry(t) \/ PmReply(t) \/ PmSent(t) \/ PmApology(t)
          \/ GrEntry(t) \/ GrLoop(t) \/ GrHttp(t) \/ GrWait(t)
          \/ SlmEntry(t) \/ SlmSplit(t) \/ SlmSend(t)

RunSpec == RunInit /\ [][RunNext]_vars

\* ------------------------------------- one worker, one message, and a stop
\* the worker of a started listener at line 266, announcements on or off, with one
\* message of Alice waiting at the backend
StopInit ==
    /\ th = [t \in Threads |-> IF t = 1 THEN [NoThread EXCEPT !.pc = "lm_while"] ELSE NoThread]
    /\ sent = <<>>
    /\ faults = 0
    /\ max_message_length = SmallML
    /\ api_key = "sk"
    /\ listen_list = {"Alice"}
    /\ self_name = "Bot"
    /\ last_message_time = <<>>
    /\ clock = 0
    /\ time_report \in BOOLEAN
    /\ time_report_who = "Alice"
    /\ last_reported_hour = -1
    /\ running = TRUE
    /\ listener_thread = 1
    /\ ctl = "idle"
    /\ \E x \in SecondMessages : inbox = [NoInbox EXCEPT !["Alice"] = <<[x EXCEPT !.id = 1]>>]
    /\ arrivals = 1

\* one step of the worker inside listen_messages
LoopStep(t) ==
    \/ LmWhile(t) \/ LmReport(t) \/ StrSend(t) \/ LmFetch(t)
    \/ LmChat(t) \/ LmMsg(t) \/ LmSleep(t) \/ LmBackoff(t)
    \/ PmEntry(t) \/ PmReply(t) \/ PmSent(t) \/ PmApology(t)
    \/ GrEntry(t) \/ GrLoop(t) \/ GrHttp(t) \/ GrWait(t)
    \/ SlmEntry(t) \/ SlmSplit(t) \/ SlmSend(t)

\* the worker runs, stop_listening may be called, start_listening is not called again
StopNext ==
    \/ StopListening \/ JoinDone \/ JoinTimeout
    \/ \E t \in Threads : LoopStep(t)

StopSpec == StopInit /\ [][StopNext]_vars

\* the same under fair scheduling: a thread that can take a step takes one, every
\* backend call, HTTP call and sleep returns
FairStopSpec == StopSpec /\ \A t \in Threads : WF_vars(LoopStep(t))

\* --------------------------------------- a worker that has just been started
\* the state after start_listening (line 291): the worker is at the drain of line
\* 261, and a message of Alice that arrived before the start (number 0) is waiting
\* at the backend
DrainInit ==
    /\ th = [t \in Threads |-> IF t = 1 THEN [NoThread EXCEPT !.pc = "lm_drain"] ELSE NoThread]
    /\ sent = <<>>
    /\ faults = 0
    /\ max_message_length = SmallML
    /\ api_key = "sk"
    /\ listen_list = {"Alice"}
    /\ self_name = "Bot"
    /\ last_message_time = <<>>
    /\ clock = 0
    /\ time_report \in BOOLEAN
    /\ time_report_who = "Alice"
    /\ last_reported_hour = -1
    /\ running = TRUE
    /\ listener_thread = 1
    /\ ctl = "idle"
    /\ inbox = [NoInbox EXCEPT !["Alice"] = <<Hello>>]
    /\ arrivals = 0

\* the worker drains and polls while messages arrive
DrainNext ==
    \/ Arrive
    \/ \E t \in Threads : LmDrain(t) \/ LoopStep(t)

DrainSpec == DrainInit /\ [][DrainNext]_vars

\* C21: a message that was waiting at the backend before the worker started (number
\* 0) is never passed to process_message, whether the drain of line 261 returned or
\* raised; only messages that arrive later are.
C21_PendingNeverDispatched ==
    \A t \in Threads : 0 \notin Handled(t)

\* C16: once running is false and is not set again, a worker that is in its poll
\* sleep (line 278) goes from the sleep to the test of line 266 and from there out
\* of listen_messages: on the way no GetListenMessage is called (the backend keeps
\* its messages), SendMsg is not called and no message is passed to process_message.
C16_StopDuringSleepEndsWorker ==
    [][\A t \in Threads :
          (th[t].pc \in {"lm_sleep", "lm_while"} /\ ~running') =>
              /\ th'[t].pc \in (IF th[t].pc = "lm_sleep" THEN {"lm_sleep", "lm_while"}
                                ELSE {"lm_while", "done"})
              /\ sent' = sent
              /\ inbox' = inbox
              /\ th'[t].trace = th[t].trace]_vars

\* C16 witness: stop_listening has cleared the flag and waits in join while the
\* worker is in its poll sleep.
C16_Witness ==
    /\ ~running
    /\ ctl = "joining"
    /\ th[listener_thread].pc = "lm_sleep"

\* C17: no exception takes the worker out of listen_messages: a failed fetch leads
\* to the 5-second backoff, the backoff (like the poll sleep) to the test of line
\* 266, that test with running true to the report check or the fetch of a new cycle,
\* and the worker leaves only from that test with running false.
C17_LoopSurvivesFailures ==
    /\ [](\A t \in Threads : th[t].pc # "raised")
    /\ [][\A t \in Threads :
             /\ (th[t].pc # "done" /\ th'[t].pc = "done") =>
                    (th[t].pc = "lm_while" /\ ~running)
             /\ (th[t].pc = "lm_fetch" /\ faults' = faults + 1) =>
                    (th'[t].pc = "lm_backoff" /\ BlockedFor(th'[t]) = ErrorBackoff)
             /\ (th[t].pc = "lm_backoff" /\ th'[t].pc # "lm_backoff") =>
                    th'[t].pc = "lm_while"
             /\ (th[t].pc = "lm_while" /\ th'[t].pc # "lm_while" /\ running) =>
                    th'[t].pc = (IF time_report THEN "lm_report" ELSE "lm_fetch")]_vars

\* C17 witness: the fetch has failed with the message still at the backend, and the
\* worker is in the backoff with running true.
C17_Witness ==
    \E t \in Threads :
        /\ th[t].pc = "lm_backoff"
        /\ running
        /\ faults > 0
        /\ inbox["Alice"] # <<>>

\* C18: after stop_listening has set running to false, with no later
\* start_listening and under fair scheduling, a worker that is still inside
\* listen_messages eventually leaves it, whatever it was doing.
C18_StoppedWorkerLeaves ==
    \A t \in Threads : (~running /\ Alive(t)) ~> ~Alive(t)

\* the cycle that fetched the batch has reached its sleep (line 278 or line 281)
CycleOver(t) == th[t].pc \in {"lm_sleep", "lm_backoff"} /\ inbox = NoInbox

\* C12: in a poll cycle whose batch holds three messages of one watched peer, the
\* third message is passed to process_message in that cycle whatever happens to the
\* second (an exception while its fields are read, in the filter, in get_reply or in
\* a send), and so is the message of the other peer: when the cycle reaches its
\* sleep, every message of the batch has been passed to process_message.
C12_RaisingMessageKeepsBatchGoing ==
    \A t \in Threads : CycleOver(t) => {1, 2, 3, 4} \subseteq Handled(t)

\* C19: replies go out in arrival order: in the history of the worker's calls, a
\* call for a message of a peer (process_message, get_reply, SendMsg) is never
\* followed by a call for an earlier message of that peer, so every send for m1
\* comes before get_reply and every send for m2; and the segments of one reply are
\* sent in the order of the list of parts.
C19_RepliesInArrivalOrder ==
    \A t \in Threads : \A i, j \in 1..Len(th[t].trace) :
        (i < j /\ th[t].trace[i].to = th[t].trace[j].to) =>
            /\ th[t].trace[i].id <= th[t].trace[j].id
            /\ (/\ th[t].trace[i].id = th[t].trace[j].id
                /\ th[t].trace[i].seg >= 0 /\ th[t].trace[j].seg >= 0)
               => th[t].trace[i].seg < th[t].trace[j].seg

\* C19 witness: three accepted messages of one peer were answered, the first with a
\* reply sent in two segments, the third with a single reply.
C19_Witness ==
    \E t \in Threads :
        /\ th[t].pc = "lm_sleep"
        /\ \A m \in {1, 2, 3} :
              \E k \in 1..Len(th[t].trace) : th[t].trace[k] = [ev |-> "gr", id |-> m,
                                                               to |-> "Alice", seg |-> -1]
        /\ \E k \in 1..Len(th[t].trace) : th[t].trace[k] = [ev |-> "send", id |-> 1,
                                                             to |-> "Alice", seg |-> 1]
        /\ \E k \in 1..Len(th[t].trace) : th[t].trace[k] = [ev |-> "send", id |-> 3,
                                                             to |-> "Alice", seg |-> -1]

\* the thread is inside the body of the while loop of listen_messages, in any call
\* made from it or in one of its sleeps
InPollLoop(t) == th[t].pc \notin {"none", "lm_drain", "lm_while", "done", "raised"}

\* C1: at most one listen_messages worker is executing the poll loop at any time.
C1_AtMostOnePollLoop ==
    Cardinality({t \in Threads : InPollLoop(t)}) <= 1

====
